---- MODULE Spec2Model ----
(***************************************************************************)
(* Model of the retrieval pipeline of server/services/ragService.ts and    *)
(* of the startup callback of server/server.ts: chunkText, getEmbedding,   *)
(* sourceExists, storeChunks, loadAllData, findSimilarChunks and ask, run  *)
(* against one shared knowledge_base table.                                *)
(*                                                                         *)
(* Strings are sequences of one-character strings.  Every await of the     *)
(* code is one step of the model, so that other tasks interleave exactly   *)
(* where the event loop lets them.                                         *)
(***************************************************************************)
EXTENDS Integers, Sequences, FiniteSets, TLC

(***************************************************************************)
(* Sizes.  EMBEDDING_DIMENSION and WordsPerChunk stand for the 768 and the *)
(* 400 of the source (ragService.ts:19 and :22), scaled down so that       *)
(* truncation, padding and multi-chunk texts fit small vectors and texts;  *)
(* every text and vector below is built relative to them.                  *)
(***************************************************************************)
EMBEDDING_DIMENSION == 2
WordsPerChunk == 2
MaxRuns == 2
AskLimit == 5

\* SQL NULL in a vector column; no vector(n) value is empty.
NULL == <<>>

Min(a, b) == IF a <= b THEN a ELSE b

(***************************************************************************)
(* String helpers of the JavaScript runtime used by chunkText.             *)
(***************************************************************************)
IsSpace(c) == c \in {" ", "\n"}

RECURSIVE TrimStart(_)
TrimStart(s) ==
  IF s # <<>> /\ IsSpace(Head(s)) THEN TrimStart(Tail(s)) ELSE s

RECURSIVE TrimEnd(_)
TrimEnd(s) ==
  IF s # <<>> /\ IsSpace(s[Len(s)]) THEN TrimEnd(SubSeq(s, 1, Len(s) - 1)) ELSE s

Trim(s) == TrimEnd(TrimStart(s))

\* text.split(/\s+/): the pieces between maximal runs of whitespace; a text
\* that starts or ends with whitespace yields an empty first or last piece.
RECURSIVE SplitWs(_, _)
SplitWs(s, cur) ==
  IF s = <<>> THEN <<cur>>
  ELSE IF IsSpace(Head(s)) THEN <<cur>> \o SplitWs(TrimStart(s), <<>>)
  ELSE SplitWs(Tail(s), Append(cur, Head(s)))

Split(text) == SplitWs(text, <<>>)

\* words.slice(from, to), zero-based, end exclusive, clamped to the length.
Slice(words, from, to) == SubSeq(words, from + 1, Min(to, Len(words)))

\* pieces.join(sep)
RECURSIVE Join(_, _)
Join(pieces, sep) ==
  IF pieces = <<>> THEN <<>>
  ELSE IF Len(pieces) = 1 THEN pieces[1]
  ELSE pieces[1] \o sep \o Join(Tail(pieces), sep)

(***************************************************************************)
(* chunkText (ragService.ts:22-34).                                        *)
(***************************************************************************)
\* Faulty variant, for comparison: every window is pushed, blank or not.
RECURSIVE ChunkLoopKeepBlank(_, _, _)
ChunkLoopKeepBlank(words, wordsPerChunk, i) ==
  IF i >= Len(words) THEN <<>>
  ELSE <<Trim(Join(Slice(words, i, i + wordsPerChunk), <<" ">>))>>
         \o ChunkLoopKeepBlank(words, wordsPerChunk, i + wordsPerChunk)

RECURSIVE ChunkLoop(_, _, _)
ChunkLoop(words, wordsPerChunk, i) ==
  IF i >= Len(words) THEN <<>>
  ELSE LET chunk == Join(Slice(words, i, i + wordsPerChunk), <<" ">>)
       IN  (IF Len(Trim(chunk)) > 0 THEN <<Trim(chunk)>> ELSE <<>>)
             \o ChunkLoop(words, wordsPerChunk, i + wordsPerChunk)

chunkText(text, wordsPerChunk) == ChunkLoop(Split(text), wordsPerChunk, 0)

(***************************************************************************)
(* Vectors.                                                                *)
(***************************************************************************)
RECURSIVE DotFrom(_, _, _)
DotFrom(a, b, i) ==
  IF i > Len(a) THEN 0 ELSE a[i] * b[i] + DotFrom(a, b, i + 1)

Dot(a, b) == DotFrom(a, b, 1)

\* embedding.slice(0, n)
Take(s, n) == SubSeq(s, 1, Min(n, Len(s)))

\* [...embedding, ...new Array(n - embedding.length).fill(0)]
PadZeros(s, n) == [i \in 1..n |-> IF i <= Len(s) THEN s[i] ELSE 0]

(***************************************************************************)
(* The value of result.embedding returned by model.embedContent            *)
(* (ragService.ts:44): undefined, a bare array, or an object that may own  *)
(* a `values` key and may own an `embedding` key.                          *)
(***************************************************************************)
Canonical(v) ==
  [kind |-> "object", hasValues |-> TRUE, values |-> v, hasAlt |-> FALSE, alt |-> <<>>, arr |-> <<>>]

BareArray(v) ==
  [kind |-> "array", hasValues |-> FALSE, values |-> <<>>, hasAlt |-> FALSE, alt |-> <<>>, arr |-> v]

AltObject(v) ==
  [kind |-> "object", hasValues |-> FALSE, values |-> <<>>, hasAlt |-> TRUE, alt |-> v, arr |-> <<>>]

Missing ==
  [kind |-> "undefined", hasValues |-> FALSE, values |-> <<>>, hasAlt |-> FALSE, alt |-> <<>>, arr |-> <<>>]

\* 'values' in result.embedding: an own key of the object, or, for an array,
\* the inherited method Array.prototype.values.
ValuesIn(e) == e.kind = "array" \/ (e.kind = "object" /\ e.hasValues)

\* Array.from(result.embedding.values): a copy of the array under the key; for
\* a bare array the value is the method, a function of length 0, which
\* Array.from turns into the empty array.
ArrayFromValues(e) == IF e.kind = "array" THEN <<>> ELSE e.values

\* ragService.ts:48-62, the shape extraction.
ExtractEmbedding(e) ==
  IF e.kind \in {"object", "array"} /\ ValuesIn(e) THEN ArrayFromValues(e)
  ELSE IF e.kind = "array" THEN e.arr
  ELSE IF e.kind = "object" THEN (IF e.hasAlt THEN e.alt ELSE <<>>)
  ELSE <<>>

\* Faulty variant, for comparison: a short vector is returned without padding.
ReconcileNoPad(embedding) == Take(embedding, EMBEDDING_DIMENSION)

\* ragService.ts:75-92, the branch taken for EMBEDDING_DIMENSION === 768.
Reconcile(embedding) ==
  IF Len(embedding) >= EMBEDDING_DIMENSION
    THEN Take(embedding, EMBEDDING_DIMENSION)
    ELSE PadZeros(embedding, EMBEDDING_DIMENSION)

Thrown == [ok |-> FALSE, vec |-> <<>>]
Returned(v) == [ok |-> TRUE, vec |-> v]

\* getEmbedding (ragService.ts:37-101) on the response of embedContent:
\* a thrown error (re-thrown by the catch) or the reconciled vector.
getEmbedding(e) ==
  LET embedding == ExtractEmbedding(e)
  IN  IF Len(embedding) = 0 THEN Thrown ELSE Returned(Reconcile(embedding))

\* The 1536 of ragService.ts:71, twice the 768 that EMBEDDING_DIMENSION
\* stands for.
AltDimension == 2 * EMBEDDING_DIMENSION

\* The console.warn calls of ragService.ts:71-73 and :81 for an extracted
\* vector: "unexpected" unless its length is 768 or 1536, "padding" when it
\* is shorter than 768.  The slice of line 79 logs nothing.
DimensionWarnings(embedding) ==
  (IF Len(embedding) # EMBEDDING_DIMENSION /\ Len(embedding) # AltDimension
     THEN {"unexpected"} ELSE {})
  \cup (IF Len(embedding) >= EMBEDDING_DIMENSION THEN {} ELSE {"padding"})

\* The warnings logged by one getEmbedding call; none before a throw.
getEmbeddingWarnings(e) ==
  LET embedding == ExtractEmbedding(e)
  IN  IF Len(embedding) = 0 THEN {} ELSE DimensionWarnings(embedding)

(***************************************************************************)
(* The knowledge_base table: its rows in insertion order.                  *)
(***************************************************************************)
Row(source, sourceId, i, content, embedding) ==
  [source |-> source, source_id |-> sourceId, chunk_index |-> i,
   chunk_content |-> content, embeddings_768 |-> embedding]

\* WHERE source = :source AND source_id = :sourceId
RowsOf(rows, source, sourceId) ==
  LET Keep(r) == r.source = source /\ r.source_id = sourceId
  IN  SelectSeq(rows, Keep)

\* Faulty variant, for comparison: the destroy deletes nothing.
DestroyNothing(rows, source, sourceId) == rows

\* KnowledgeBase.destroy({ where: { source, source_id } })
Destroy(rows, source, sourceId) ==
  LET Keep(r) == ~(r.source = source /\ r.source_id = sourceId)
  IN  SelectSeq(rows, Keep)

(***************************************************************************)
(* pgvector's cosine distance a <=> q is 1 - a.q / (|a| |q|).  Closer(a,   *)
(* b, q) is (a <=> q) < (b <=> q), decided exactly on integers: with       *)
(* x = a.q and y = b.q it is x / |a| > y / |b|.  The vectors of the model  *)
(* are non-zero (the distance to a zero vector is NaN).                    *)
(***************************************************************************)
Closer(a, b, q) ==
  LET x == Dot(a, q)
      y == Dot(b, q)
      na == Dot(a, a)
      nb == Dot(b, b)
  IN  IF x >= 0 /\ y < 0 THEN TRUE
      ELSE IF x < 0 /\ y >= 0 THEN FALSE
      ELSE IF x >= 0 THEN x * x * nb > y * y * na
      ELSE x * x * nb < y * y * na

\* ORDER BY embeddings_768 <=> q: rows at equal distance keep table order.
RECURSIVE InsertByDistance(_, _, _)
InsertByDistance(sorted, r, q) ==
  IF sorted = <<>> THEN <<r>>
  ELSE IF Closer(r.embeddings_768, Head(sorted).embeddings_768, q)
    THEN <<r>> \o sorted
    ELSE <<Head(sorted)>> \o InsertByDistance(Tail(sorted), r, q)

\* Faulty variant, for comparison: the ORDER BY is dropped.
TableOrder(rows, q) == rows

RECURSIVE OrderByDistance(_, _)
OrderByDistance(rows, q) ==
  IF rows = <<>> THEN <<>>
  ELSE InsertByDistance(OrderByDistance(SubSeq(rows, 1, Len(rows) - 1), q),
                        rows[Len(rows)], q)

\* WHERE embeddings_768 IS NOT NULL
WithEmbedding(rows) ==
  LET Keep(r) == r.embeddings_768 # NULL
  IN  SelectSeq(rows, Keep)

\* Faulty variant, for comparison: rows at a similarity of 0 or less are filtered out.
findSimilarAboveZero(rows, questionEmbedding, limit) ==
  IF Len(questionEmbedding) # EMBEDDING_DIMENSION THEN <<>>
  ELSE LET Keep(r) == Dot(r.embeddings_768, questionEmbedding) > 0
       IN  Take(OrderByDistance(SelectSeq(WithEmbedding(rows), Keep), questionEmbedding), limit)

\* findSimilarChunks (ragService.ts:415-471) on the table it reads.
findSimilarChunks(rows, questionEmbedding, limit) ==
  IF Len(questionEmbedding) # EMBEDDING_DIMENSION THEN <<>>
  ELSE Take(OrderByDistance(WithEmbedding(rows), questionEmbedding), limit)

(***************************************************************************)
(* SQL text literals of storeChunks (ragService.ts:274-281): the chunk is  *)
(* written with every quote doubled and read back by the SQL parser, and   *)
(* the vector literal is cast to vector(768), which rejects any other      *)
(* number of entries.                                                      *)
(***************************************************************************)
RECURSIVE EscapeQuotes(_)
EscapeQuotes(s) ==
  IF s = <<>> THEN <<>>
  ELSE IF Head(s) = "'" THEN <<"'", "'">> \o EscapeQuotes(Tail(s))
  ELSE <<Head(s)>> \o EscapeQuotes(Tail(s))

\* The value of the literal '...' whose body is s: '' reads as one quote.
RECURSIVE SqlLiteralValue(_)
SqlLiteralValue(s) ==
  IF s = <<>> THEN <<>>
  ELSE IF Head(s) = "'" /\ Len(s) >= 2 /\ s[2] = "'"
    THEN <<"'">> \o SqlLiteralValue(SubSeq(s, 3, Len(s)))
  ELSE <<Head(s)>> \o SqlLiteralValue(Tail(s))

\* '[...]'::vector(dimension) succeeds only for `dimension` entries.
CastOk(embedding, dimension) == Len(embedding) = dimension

\* Faulty variant, for comparison: the vector goes to another column and
\* embeddings_768 is left NULL.
InsertedRowOtherColumn(source, sourceId, i, chunks, embeddings) ==
  Row(source, sourceId, i, SqlLiteralValue(EscapeQuotes(chunks[i + 1])), NULL)

\* The row written by the INSERT of iteration i.
InsertedRow(source, sourceId, i, chunks, embeddings) ==
  Row(source, sourceId, i, SqlLiteralValue(EscapeQuotes(chunks[i + 1])), embeddings[i + 1])

(***************************************************************************)
(* The configured sources, in the order loadAllData walks them             *)
(* (ragService.ts:299-303, 335-341, 371): a prefix of each list.           *)
(***************************************************************************)
pdfFiles ==
  <<"OpEd - A Revolution at Our Feet.pdf",
    "Research Paper - Gravitational Reversal Physics.pdf">>

articleIds == <<"military-deployment-report">>

channels == <<"lab-notes">>

Sources ==
  [i \in 1..Len(pdfFiles) |-> [source |-> "pdf", source_id |-> pdfFiles[i]]]
    \o [i \in 1..Len(articleIds) |-> [source |-> "article", source_id |-> articleIds[i]]]
    \o [i \in 1..Len(channels) |-> [source |-> "slack", source_id |-> channels[i]]]

SourceIdx == 1..Len(Sources)

(***************************************************************************)
(* The collaborators: source contents and the remote embedding model.      *)
(***************************************************************************)
Letters == <<"a", "b", "c">>

Word(i) == <<Letters[((i - 1) % 3) + 1]>>

\* A text of n words separated by single spaces.
Words(n) == Join([i \in 1..n |-> Word(i)], <<" ">>)

Page(messages, hasMore) == [messages |-> messages, hasMore |-> hasMore]

Msg(user, text) == [user |-> user, text |-> text]

\* A channel of two pages; the second message has no user and holds a quote.
TwoPages ==
  <<Page(<<Msg(<<"u">>, <<"a">>)>>, TRUE),
    Page(<<Msg(<<>>, <<"i", "t", "'", "s">>)>>, FALSE)>>

\* A channel whose first page holds no message.
NoMessages == <<Page(<<>>, FALSE)>>

\* What each source holds, for the whole behaviour (the content is unchanged
\* between runs): a text for a PDF or an article, pages for a channel.
Worlds ==
  { <<Words(WordsPerChunk + 1), <<"b">>, <<>>, TwoPages>>,
    <<<<"c">>, <<" ">> \o Words(WordsPerChunk + 1), Words(1), NoMessages>> }

\* model.embedContent(text) of the remote model (ragService.ts:43-44): the
\* response depends on the text alone.  The shapes and lengths differ so that
\* extraction, truncation and padding all occur: VecB is one entry too long,
\* VecC one entry too short.
VecA == [i \in 1..EMBEDDING_DIMENSION |-> IF i = 1 THEN 1 ELSE 0]
VecB == [i \in 1..(EMBEDDING_DIMENSION + 1) |->
           IF i = 2 THEN 1 ELSE IF i = EMBEDDING_DIMENSION + 1 THEN 7 ELSE 0]
VecC == [i \in 1..(EMBEDDING_DIMENSION - 1) |-> IF i = 1 THEN 9 ELSE 1]
VecD == [i \in 1..EMBEDDING_DIMENSION |-> IF i = 1 THEN -1 ELSE 1]

embedContent(text) ==
  IF text = <<>> THEN Missing
  ELSE IF Head(text) = "a" THEN Canonical(VecA)
  ELSE IF Head(text) = "b" THEN Canonical(VecB)
  ELSE IF Head(text) = "c" THEN AltObject(VecC)
  ELSE Canonical(VecD)

(***************************************************************************)
(* loadSlackChannel (ragService.ts:189-234).  The request for page failAt  *)
(* is answered non-OK or throws (failAt = 0: no request fails); either way *)
(* the walk ends and the messages gathered so far are returned.  A page    *)
(* past the last one holds no message.                                     *)
(***************************************************************************)
PageData(pages, page) ==
  IF page <= Len(pages) THEN pages[page] ELSE Page(<<>>, FALSE)

\* The map of ragService.ts:208-214.
FormatMessage(msg) ==
  IF msg.user # <<>> /\ msg.text # <<>> THEN msg.user \o <<":", " ">> \o msg.text
  ELSE msg.text

PageMessages(data) ==
  LET NonBlank(t) == Len(Trim(t)) > 0
  IN  SelectSeq([i \in 1..Len(data.messages) |-> FormatMessage(data.messages[i])], NonBlank)

RECURSIVE SlackWalk(_, _, _, _)
SlackWalk(pages, page, failAt, messages) ==
  IF page = failAt THEN messages
  ELSE LET data == PageData(pages, page)
           gathered == messages \o PageMessages(data)
           hasMore == data.hasMore /\ Len(data.messages) > 0
       IN  IF hasMore THEN SlackWalk(pages, page + 1, failAt, gathered) ELSE gathered

loadSlackChannel(pages, failAt) == SlackWalk(pages, 1, failAt, <<>>)

(***************************************************************************)
(* State.                                                                  *)
(***************************************************************************)
VARIABLES
  table,          \* the rows of knowledge_base, in insertion order
  content,        \* what each configured source holds
  pc,             \* per loadAllData task: where it stands
  runsLeft,       \* per task: how many more runs it may start
  idx,            \* per task: the source of the current loop iteration
  chunks,         \* per task: chunks of the current source
  embeddings,     \* per task: embeddings gathered so far
  ins,            \* per task: i of the insert loop of storeChunks
  failedIn,       \* per task: the call whose error ended the run
  ops,            \* per task: <<source, call>> made in the current run
  completed,      \* per task: sources whose storeChunks returned in this run
  prevCompleted,  \* per task: the same for the run before
  tableAtStart,   \* per task: the table when the current run started
  before,         \* per task: the table when the current storeChunks started
  apc,            \* the ask task: where it stands
  question,       \* userQuestion
  totalChunks,    \* ask: the count read (-1: not read)
  questionEmbedding,
  similarChunks,
  prompt,         \* ask: the chunks and question given to the generator
  generated,      \* ask: the text the generator returned
  answer,         \* ask: the returned string
  askCalls,       \* ask: <<embedding calls, generation calls>> of this invocation
  embeddedAtSearch, \* ask: rows with an embedding when the search ran (-1: it has not)
  query,          \* a direct findSimilarChunks call: questionEmbedding
  limit,          \* the same call: limit
  findResult,     \* the same call: << >> before it returns, then <<its result>>
  startPc,        \* the startup callback of server.ts: where it stands
  autoLoad,       \* process.env.AUTO_LOAD_DATA === 'true'
  embedResponse,  \* a direct getEmbedding call: what embedContent answered
  embedResult,    \* the same call: << >> before it ends, then <<its outcome>>
  chunkInput,     \* a direct chunkText call: text
  chunkWindow,    \* the same call: wordsPerChunk
  chunkResult,    \* the same call: << >> before it returns, then <<its result>>
  walkPc,         \* a direct loadSlackChannel call: where it stands
  walkPage,       \* the same call: page (MaxPages + 1: any later page)
  walkHasMore,    \* the same call: hasMore
  walkMessages,   \* the same call: messages
  walkRequested   \* the same call: the page numbers requested, up to MaxPages

loaderVars ==
  <<pc, runsLeft, idx, chunks, embeddings, ins, failedIn, ops, completed,
    prevCompleted, tableAtStart, before>>

askVars ==
  <<apc, question, totalChunks, questionEmbedding, similarChunks, prompt,
    generated, answer, askCalls, embeddedAtSearch>>

findVars == <<query, limit, findResult>>

startVars == <<startPc, autoLoad>>

embedVars == <<embedResponse, embedResult>>

chunkVars == <<chunkInput, chunkWindow, chunkResult>>

walkVars == <<walkPc, walkPage, walkHasMore, walkMessages, walkRequested>>

\* The state of the calls made outside loadAllData and ask.
unitVars == <<startVars, embedVars, chunkVars, walkVars>>

vars == <<table, content, loaderVars, askVars, findVars, unitVars>>

Tasks == {1, 2}

Src(p) == Sources[idx[p]]

\* Rows with an embedding and rows without one, of a source that is not
\* configured: what an earlier deployment (for instance one that stored into
\* embeddings_1536) left behind.
LegacyRow(i, embedding) == Row("pdf", "legacy.pdf", i, Word(i + 1), embedding)

LegacyEmbedded ==
  <<LegacyRow(0, VecA), LegacyRow(1, VecD), LegacyRow(2, NULL),
    LegacyRow(3, Reconcile(VecC)), LegacyRow(4, Reconcile(VecB)),
    LegacyRow(5, VecD), LegacyRow(6, VecA)>>

LegacyNull == <<LegacyRow(0, NULL), LegacyRow(1, NULL)>>

InitialTables == {<<>>, LegacyEmbedded, LegacyNull}

LoaderInit(n) ==
  /\ pc = [p \in Tasks |-> "idle"]
  /\ runsLeft = [p \in Tasks |-> n]
  /\ idx = [p \in Tasks |-> 1]
  /\ chunks = [p \in Tasks |-> <<>>]
  /\ embeddings = [p \in Tasks |-> <<>>]
  /\ ins = [p \in Tasks |-> 0]
  /\ failedIn = [p \in Tasks |-> "none"]
  /\ ops = [p \in Tasks |-> {}]
  /\ completed = [p \in Tasks |-> {}]
  /\ prevCompleted = [p \in Tasks |-> {}]
  /\ tableAtStart = [p \in Tasks |-> <<>>]
  /\ before = [p \in Tasks |-> <<>>]

AskInit ==
  /\ apc = "idle"
  /\ question = <<>>
  /\ totalChunks = -1
  /\ questionEmbedding = <<>>
  /\ similarChunks = <<>>
  /\ prompt = [context |-> <<>>, question |-> <<>>]
  /\ generated = "none"
  /\ answer = "none"
  /\ askCalls = <<0, 0>>
  /\ embeddedAtSearch = -1

FindInit ==
  /\ query = <<>>
  /\ limit = 0
  /\ findResult = <<>>

\* No startup callback and no direct call under way.
StartInit ==
  /\ startPc = "idle"
  /\ autoLoad = FALSE

EmbedInit ==
  /\ embedResponse = Missing
  /\ embedResult = <<>>

ChunkInit ==
  /\ chunkInput = <<>>
  /\ chunkWindow = 0
  /\ chunkResult = <<>>

WalkInit ==
  /\ walkPc = "idle"
  /\ walkPage = 1
  /\ walkHasMore = TRUE
  /\ walkMessages = <<>>
  /\ walkRequested = <<>>

UnitInit == StartInit /\ EmbedInit /\ ChunkInit /\ WalkInit

\* Any table an earlier deployment left, any world, and MaxRuns runs to come.
Init ==
  /\ table \in InitialTables
  /\ content \in Worlds
  /\ LoaderInit(MaxRuns)
  /\ AskInit
  /\ FindInit
  /\ UnitInit

(***************************************************************************)
(* loadAllData (ragService.ts:293-412).  The three loops differ only in    *)
(* how the source is fetched and in the empty-channel `continue`.          *)
(***************************************************************************)
\* A call whose error reaches the catch of loadAllData, which re-throws.
Fail(p, call) ==
  /\ pc' = [pc EXCEPT ![p] = "failed"]
  /\ failedIn' = [failedIn EXCEPT ![p] = call]

\* `continue`, or the end of the loop body: the next source, or the end.
NextSource(p) ==
  IF idx[p] < Len(Sources)
    THEN /\ pc' = [pc EXCEPT ![p] = "exists"]
         /\ idx' = [idx EXCEPT ![p] = idx[p] + 1]
    ELSE /\ pc' = [pc EXCEPT ![p] = "done"]
         /\ idx' = idx

Did(p, call) == ops' = [ops EXCEPT ![p] = ops[p] \cup {<<idx[p], call>>}]

\* A caller (the startup callback, server.ts:40, or the load_data route)
\* invokes loadAllData.
Start(p) ==
  /\ pc[p] \in {"idle", "done", "failed"}
  /\ runsLeft[p] > 0
  /\ runsLeft' = [runsLeft EXCEPT ![p] = runsLeft[p] - 1]
  /\ pc' = [pc EXCEPT ![p] = "exists"]
  /\ idx' = [idx EXCEPT ![p] = 1]
  /\ chunks' = [chunks EXCEPT ![p] = <<>>]
  /\ embeddings' = [embeddings EXCEPT ![p] = <<>>]
  /\ ins' = [ins EXCEPT ![p] = 0]
  /\ failedIn' = [failedIn EXCEPT ![p] = "none"]
  /\ ops' = [ops EXCEPT ![p] = {}]
  /\ prevCompleted' = [prevCompleted EXCEPT ![p] = completed[p]]
  /\ completed' = [completed EXCEPT ![p] = {}]
  /\ tableAtStart' = [tableAtStart EXCEPT ![p] = table]
  /\ before' = [before EXCEPT ![p] = <<>>]
  /\ UNCHANGED <<table, content, askVars, findVars, unitVars>>

\* sourceExists (ragService.ts:237-250) as called at the top of each loop
\* body: the count query answers, or it fails and the catch returns false.
sourceExists(rows, source, sourceId, storeUp) ==
  IF storeUp THEN Len(RowsOf(rows, source, sourceId)) > 0 ELSE FALSE

Exists(p) ==
  /\ pc[p] = "exists"
  /\ \E storeUp \in BOOLEAN :
       IF sourceExists(table, Src(p).source, Src(p).source_id, storeUp)
         THEN NextSource(p)
         ELSE /\ pc' = [pc EXCEPT ![p] = "load"]
              /\ idx' = idx
  /\ Did(p, "exists")
  /\ UNCHANGED <<table, content, runsLeft, chunks, embeddings, ins, failedIn,
                 completed, prevCompleted, tableAtStart, before, askVars, findVars, unitVars>>

\* After the fetch: chunkText, then the embedding loop; with no chunk the loop
\* is empty and storeChunks is called at once.
Chunked(p, text) ==
  /\ chunks' = [chunks EXCEPT ![p] = chunkText(text, WordsPerChunk)]
  /\ embeddings' = [embeddings EXCEPT ![p] = <<>>]
  /\ pc' = [pc EXCEPT ![p] = IF chunks'[p] = <<>> THEN "destroy" ELSE "embed"]
  /\ idx' = idx

\* loadPDF / loadArticle (ragService.ts:104-186, called at 315 and 351): the
\* document's text, or an error that is logged and re-thrown.
LoadDocument(p) ==
  /\ pc[p] = "load"
  /\ Src(p).source # "slack"
  /\ Did(p, "fetch")
  /\ \/ /\ Fail(p, "fetch")
        /\ UNCHANGED <<idx, chunks, embeddings>>
     \/ /\ Chunked(p, content[idx[p]])
        /\ UNCHANGED failedIn
  /\ UNCHANGED <<table, content, runsLeft, ins, completed, prevCompleted,
                 tableAtStart, before, askVars, findVars, unitVars>>

\* loadSlackChannel as called at ragService.ts:381: a channel without
\* messages is skipped, otherwise the messages are joined by newlines.
LoadChannel(p) ==
  /\ pc[p] = "load"
  /\ Src(p).source = "slack"
  /\ Did(p, "fetch")
  /\ \E failAt \in 0..Len(content[idx[p]]) :
       LET messages == loadSlackChannel(content[idx[p]], failAt)
       IN  IF Len(messages) = 0
             THEN /\ NextSource(p)
                  /\ UNCHANGED <<chunks, embeddings>>
             ELSE Chunked(p, Join(messages, <<"\n">>))
  /\ UNCHANGED <<table, content, runsLeft, ins, failedIn, completed, prevCompleted,
                 tableAtStart, before, askVars, findVars, unitVars>>

\* Faulty variant, for comparison: a failed embedding ends the loop and what was gathered is stored.
EmbedStoresPartial(p) ==
  /\ pc[p] = "embed"
  /\ Did(p, "embed")
  /\ \E e \in {embedContent(chunks[p][Len(embeddings[p]) + 1]), Missing} :
       LET r == getEmbedding(e)
       IN  IF r.ok
             THEN /\ embeddings' = [embeddings EXCEPT ![p] = Append(embeddings[p], r.vec)]
                  /\ pc' = [pc EXCEPT ![p] =
                              IF Len(embeddings'[p]) = Len(chunks[p]) THEN "destroy" ELSE "embed"]
             ELSE /\ pc' = [pc EXCEPT ![p] = "destroy"]
                  /\ UNCHANGED embeddings
  /\ UNCHANGED <<table, content, runsLeft, idx, chunks, ins, failedIn, completed,
                 prevCompleted, tableAtStart, before, askVars, findVars, unitVars>>

\* One iteration of the embedding loop (ragService.ts:321-328): getEmbedding
\* of the next chunk throws (the call failed, or no vector could be
\* extracted), or its vector is pushed.
Embed(p) ==
  /\ pc[p] = "embed"
  /\ Did(p, "embed")
  /\ \E e \in {embedContent(chunks[p][Len(embeddings[p]) + 1]), Missing} :
       LET r == getEmbedding(e)
       IN  IF r.ok
             THEN /\ embeddings' = [embeddings EXCEPT ![p] = Append(embeddings[p], r.vec)]
                  /\ pc' = [pc EXCEPT ![p] =
                              IF Len(embeddings'[p]) = Len(chunks[p]) THEN "destroy" ELSE "embed"]
                  /\ UNCHANGED failedIn
             ELSE /\ Fail(p, "embed")
                  /\ UNCHANGED embeddings
  /\ UNCHANGED <<table, content, runsLeft, idx, chunks, ins, completed, prevCompleted,
                 tableAtStart, before, askVars, findVars, unitVars>>

(***************************************************************************)
(* storeChunks (ragService.ts:253-290): the destroy, then one INSERT per   *)
(* chunk, each its own statement; any error is logged and re-thrown.       *)
(***************************************************************************)
StoreDestroy(p) ==
  /\ pc[p] = "destroy"
  /\ Did(p, "destroy")
  /\ before' = [before EXCEPT ![p] = table]
  /\ ins' = [ins EXCEPT ![p] = 0]
  /\ \/ /\ table' = Destroy(table, Src(p).source, Src(p).source_id)
        /\ pc' = [pc EXCEPT ![p] = IF chunks[p] = <<>> THEN "stored" ELSE "insert"]
        /\ UNCHANGED failedIn
     \/ /\ Fail(p, "destroy")
        /\ UNCHANGED table
  /\ UNCHANGED <<content, runsLeft, idx, chunks, embeddings, completed, prevCompleted,
                 tableAtStart, askVars, findVars, unitVars>>

StoreInsert(p) ==
  /\ pc[p] = "insert"
  /\ Did(p, "insert")
  /\ \/ /\ CastOk(embeddings[p][ins[p] + 1], EMBEDDING_DIMENSION)
        /\ table' = Append(table, InsertedRow(Src(p).source, Src(p).source_id,
                                              ins[p], chunks[p], embeddings[p]))
        /\ ins' = [ins EXCEPT ![p] = ins[p] + 1]
        /\ pc' = [pc EXCEPT ![p] = IF ins'[p] = Len(chunks[p]) THEN "stored" ELSE "insert"]
        /\ UNCHANGED failedIn
     \/ /\ Fail(p, "insert")
        /\ UNCHANGED <<table, ins>>
  /\ UNCHANGED <<content, runsLeft, idx, chunks, embeddings, completed, prevCompleted,
                 tableAtStart, before, askVars, findVars, unitVars>>

\* storeChunks has returned: the loop goes on with the next source.
Stored(p) ==
  /\ pc[p] = "stored"
  /\ completed' = [completed EXCEPT ![p] = completed[p] \cup {idx[p]}]
  /\ NextSource(p)
  /\ UNCHANGED <<table, content, runsLeft, chunks, embeddings, ins, failedIn, ops,
                 prevCompleted, tableAtStart, before, askVars, findVars, unitVars>>

Loader(p) ==
  \/ Start(p)
  \/ Exists(p)
  \/ LoadDocument(p)
  \/ LoadChannel(p)
  \/ Embed(p)
  \/ StoreDestroy(p)
  \/ StoreInsert(p)
  \/ Stored(p)

\* One loadAllData task at a time.
NextLoad == Loader(1)

SpecLoad == Init /\ [][NextLoad]_vars

(***************************************************************************)
(* ask (ragService.ts:484-560).                                            *)
(***************************************************************************)
EmptySentinel ==
  "The knowledge base is empty. Please load data first by calling the /api/load_data endpoint."

NoInfoSentinel ==
  "I couldn't find any relevant information in the knowledge base to answer your question."

Questions == {<<"a", "?">>, <<"w", "h", "y">>}

\* What response.text() of the generation model may be.
GeneratedTexts == {"answer one", "answer two"}

\* A call whose error reaches the catch of ask, which re-throws.
AskThrow == apc' = "threw"

\* The route handler calls ask(userQuestion).
AskStart ==
  /\ apc \in {"idle", "returned", "threw"}
  /\ \E q \in Questions : question' = q
  /\ apc' = "count"
  /\ totalChunks' = -1
  /\ questionEmbedding' = <<>>
  /\ similarChunks' = <<>>
  /\ prompt' = [context |-> <<>>, question |-> <<>>]
  /\ generated' = "none"
  /\ answer' = "none"
  /\ askCalls' = <<0, 0>>
  /\ embeddedAtSearch' = -1
  /\ UNCHANGED <<table, content, loaderVars, findVars, unitVars>>

\* Faulty variant, for comparison: the empty-store return is missing.
AskCountNoReturn ==
  /\ apc = "count"
  /\ \/ /\ totalChunks' = Len(table)
        /\ apc' = "embed"
     \/ /\ AskThrow
        /\ UNCHANGED totalChunks
  /\ UNCHANGED <<table, content, loaderVars, question, questionEmbedding,
                 similarChunks, prompt, generated, answer, askCalls,
                 embeddedAtSearch, findVars, unitVars>>

\* KnowledgeBase.count() and the empty-store return (489-494).
AskCount ==
  /\ apc = "count"
  /\ \/ /\ totalChunks' = Len(table)
        /\ IF totalChunks' = 0
             THEN /\ answer' = EmptySentinel
                  /\ apc' = "returned"
             ELSE /\ apc' = "embed"
                  /\ UNCHANGED answer
     \/ /\ AskThrow
        /\ UNCHANGED <<totalChunks, answer>>
  /\ UNCHANGED <<table, content, loaderVars, question, questionEmbedding,
                 similarChunks, prompt, generated, askCalls, embeddedAtSearch, findVars, unitVars>>

\* getEmbedding(userQuestion) (498).
AskEmbed ==
  /\ apc = "embed"
  /\ askCalls' = <<askCalls[1] + 1, askCalls[2]>>
  /\ \E e \in {embedContent(question), Missing} :
       LET r == getEmbedding(e)
       IN  IF r.ok
             THEN /\ questionEmbedding' = r.vec
                  /\ apc' = "search"
             ELSE /\ AskThrow
                  /\ UNCHANGED questionEmbedding
  /\ UNCHANGED <<table, content, loaderVars, question, totalChunks,
                 similarChunks, prompt, generated, answer, embeddedAtSearch, findVars, unitVars>>

\* The context of ragService.ts:515-517: per chunk its label and its content.
ContextOf(found) ==
  [i \in 1..Len(found) |->
     [index |-> i, source |-> found[i].source, source_id |-> found[i].source_id,
      chunk_content |-> found[i].chunk_content]]

\* Faulty variant, for comparison: the no-result return is missing.
AskSearchNoReturn ==
  /\ apc = "search"
  /\ \/ /\ similarChunks' = findSimilarChunks(table, questionEmbedding, AskLimit)
        /\ embeddedAtSearch' = Len(WithEmbedding(table))
        /\ prompt' = [context |-> ContextOf(similarChunks'), question |-> question]
        /\ apc' = "generate"
     \/ /\ AskThrow
        /\ UNCHANGED <<similarChunks, embeddedAtSearch, prompt>>
  /\ UNCHANGED <<table, content, loaderVars, question, totalChunks,
                 questionEmbedding, generated, answer, askCalls, findVars, unitVars>>

\* findSimilarChunks(questionEmbedding, 5), the no-result return and the
\* prompt (503-535).
AskSearch ==
  /\ apc = "search"
  /\ \/ /\ similarChunks' = findSimilarChunks(table, questionEmbedding, AskLimit)
        /\ embeddedAtSearch' = Len(WithEmbedding(table))
        /\ IF Len(similarChunks') = 0
             THEN /\ answer' = NoInfoSentinel
                  /\ apc' = "returned"
                  /\ UNCHANGED prompt
             ELSE /\ prompt' = [context |-> ContextOf(similarChunks'), question |-> question]
                  /\ apc' = "generate"
                  /\ UNCHANGED answer
     \/ /\ AskThrow
        /\ UNCHANGED <<similarChunks, embeddedAtSearch, answer, prompt>>
  /\ UNCHANGED <<table, content, loaderVars, question, totalChunks,
                 questionEmbedding, generated, askCalls, findVars, unitVars>>

\* model.generateContent(prompt) and the return of its text (542-551).
AskGenerate ==
  /\ apc = "generate"
  /\ askCalls' = <<askCalls[1], askCalls[2] + 1>>
  /\ \/ \E text \in GeneratedTexts :
          /\ generated' = text
          /\ answer' = text
          /\ apc' = "returned"
     \/ /\ AskThrow
        /\ UNCHANGED <<generated, answer>>
  /\ UNCHANGED <<table, content, loaderVars, question, totalChunks,
                 questionEmbedding, similarChunks, prompt, embeddedAtSearch, findVars, unitVars>>

Ask == AskStart \/ AskCount \/ AskEmbed \/ AskSearch \/ AskGenerate

(***************************************************************************)
(* Specifications.                                                         *)
(***************************************************************************)
\* Two loadAllData tasks interleaving at their awaits, each with one run,
\* from an empty table.
InitConc ==
  /\ table = <<>>
  /\ content \in Worlds
  /\ LoaderInit(1)
  /\ AskInit
  /\ FindInit
  /\ UnitInit

NextConc == \E p \in Tasks : Loader(p)

SpecConc == InitConc /\ [][NextConc]_vars

\* ask requests while one loadAllData task makes one run.
InitAsk ==
  /\ table \in InitialTables
  /\ content \in Worlds
  /\ LoaderInit(1)
  /\ AskInit
  /\ FindInit
  /\ UnitInit

NextAsk == Loader(1) \/ Ask

SpecAsk == InitAsk /\ [][NextAsk]_vars

\* A step in which a store operation fails: the count of sourceExists (its
\* catch answers false although the source holds rows; for a source without
\* rows the answer is false either way), the destroy or an INSERT of
\* storeChunks, the count or the search query of ask.
StoreFailed ==
  \/ \E p \in Tasks :
       /\ pc[p] = "exists"
       /\ Len(RowsOf(table, Src(p).source, Src(p).source_id)) > 0
       /\ pc'[p] = "load"
  \/ \E p \in Tasks : pc[p] \in {"destroy", "insert"} /\ pc'[p] = "failed"
  \/ apc \in {"count", "search"} /\ apc' = "threw"

\* ask requests while one loadAllData task makes up to MaxRuns runs, one
\* after the other, on a table that starts empty and that nothing else
\* writes, with a store that answers every operation.  Fetches, embedding
\* calls and generation calls may still fail.
InitSound ==
  /\ table = <<>>
  /\ content \in Worlds
  /\ LoaderInit(MaxRuns)
  /\ AskInit
  /\ FindInit
  /\ UnitInit

NextSound == (Loader(1) \/ Ask) /\ ~StoreFailed

SpecSound == InitSound /\ [][NextSound]_vars

(***************************************************************************)
(* findSimilarChunks on its own: a table, a query vector and a limit drawn *)
(* at the start, then the call.                                            *)
(***************************************************************************)
MaxLimit == 3

\* Five rows of one source.  Row 2 has no embedding; rows 0 and 4 lie at the
\* same distance from any query; row 3 is opposite to row 0.
FindRows ==
  <<Row("pdf", pdfFiles[1], 0, Word(1), VecA),
    Row("pdf", pdfFiles[1], 1, Word(2), Reconcile(VecB)),
    Row("pdf", pdfFiles[1], 2, Word(3), NULL),
    Row("pdf", pdfFiles[1], 3, Word(4), [i \in 1..EMBEDDING_DIMENSION |-> -VecA[i]]),
    Row("pdf", pdfFiles[1], 4, Word(5), Reconcile(VecC \o <<0>>))>>

\* Every table made of some of these rows, in their order.
FindTables ==
  { SelectSeq(FindRows, LAMBDA r : r.chunk_index \in keep) : keep \in SUBSET (0..4) }

\* Four query vectors of length D and one that is too short.
FindQueries ==
  {VecA, VecD, Reconcile(VecB), [i \in 1..EMBEDDING_DIMENSION |-> 1],
   Take(VecA, EMBEDDING_DIMENSION - 1)}

InitFind ==
  /\ table \in FindTables
  /\ content = CHOOSE w \in Worlds : TRUE
  /\ LoaderInit(0)
  /\ AskInit
  /\ limit \in 0..MaxLimit
  /\ findResult = <<>>
  /\ query \in FindQueries
  /\ UnitInit

Find ==
  /\ findResult = <<>>
  /\ findResult' = <<findSimilarChunks(table, query, limit)>>
  /\ UNCHANGED <<table, content, loaderVars, askVars, query, limit, unitVars>>

SpecFind == InitFind /\ [][Find]_vars

(***************************************************************************)
(* getEmbedding on its own: the response of embedContent drawn at the      *)
(* start, then the call.                                                   *)
(***************************************************************************)
\* Vectors of every length from 0 to one past 1536 (scaled), entries 1 or 2.
MaxEmbedLen == AltDimension + 1

EmbedVectors == UNION { [1..n -> {1, 2}] : n \in 0..MaxEmbedLen }

\* An object that owns a `values` key and an `embedding` key.
BothKeys(v, u) ==
  [kind |-> "object", hasValues |-> TRUE, values |-> v, hasAlt |-> TRUE, alt |-> u, arr |-> <<>>]

EmbedResponses ==
  {Missing}
    \cup { Canonical(v) : v \in EmbedVectors }
    \cup { BareArray(v) : v \in EmbedVectors }
    \cup { AltObject(v) : v \in EmbedVectors }
    \cup { BothKeys(<<>>, u) : u \in EmbedVectors }
    \cup { BothKeys(<<2, 1>>, u) : u \in EmbedVectors }

InitEmbed ==
  /\ table = <<>>
  /\ content = CHOOSE w \in Worlds : TRUE
  /\ LoaderInit(0)
  /\ AskInit
  /\ FindInit
  /\ StartInit
  /\ ChunkInit
  /\ WalkInit
  /\ embedResponse \in EmbedResponses
  /\ embedResult = <<>>

GetEmbedding ==
  /\ embedResult = <<>>
  /\ embedResult' = <<[ok |-> getEmbedding(embedResponse).ok,
                       vec |-> getEmbedding(embedResponse).vec,
                       warnings |-> getEmbeddingWarnings(embedResponse)]>>
  /\ UNCHANGED <<table, content, loaderVars, askVars, findVars, startVars,
                 embedResponse, chunkVars, walkVars>>

SpecEmbed == InitEmbed /\ [][GetEmbedding]_vars

(***************************************************************************)
(* chunkText on its own: a text and a window size drawn at the start, then *)
(* the call.                                                               *)
(***************************************************************************)
MaxTextLen == 5
MaxWindow == 3

\* Two letters, the space and the line feed.
TextChars == {"a", "b", " ", "\n"}

Texts == UNION { [1..n -> TextChars] : n \in 0..MaxTextLen }

InitChunk ==
  /\ table = <<>>
  /\ content = CHOOSE w \in Worlds : TRUE
  /\ LoaderInit(0)
  /\ AskInit
  /\ FindInit
  /\ StartInit
  /\ EmbedInit
  /\ WalkInit
  /\ chunkInput \in Texts
  /\ chunkWindow \in 1..MaxWindow
  /\ chunkResult = <<>>

ChunkText ==
  /\ chunkResult = <<>>
  /\ chunkResult' = <<chunkText(chunkInput, chunkWindow)>>
  /\ UNCHANGED <<table, content, loaderVars, askVars, findVars, startVars,
                 embedVars, chunkInput, chunkWindow, walkVars>>

SpecChunk == InitChunk /\ [][ChunkText]_vars

(***************************************************************************)
(* The startup callback (server.ts:25-56): initializeDB, the count, and    *)
(* the auto-load of an empty table when AUTO_LOAD_DATA is 'true'.          *)
(***************************************************************************)
\* The rows a complete ingestion of source j stores for the text held.
LoadedRows(held, j) ==
  LET cs == chunkText(held, WordsPerChunk)
      es == [i \in 1..Len(cs) |-> getEmbedding(embedContent(cs[i])).vec]
  IN  [i \in 1..Len(cs) |-> InsertedRow(Sources[j].source, Sources[j].source_id, i - 1, cs, es)]

\* The table found at startup: empty, or holding the first PDF alone, as
\* left by an earlier run that ended after its first source.
InitStart ==
  /\ content \in Worlds
  /\ table \in {<<>>, LoadedRows(content[1], 1)}
  /\ LoaderInit(0)
  /\ AskInit
  /\ FindInit
  /\ EmbedInit
  /\ ChunkInit
  /\ WalkInit
  /\ startPc = "start"
  /\ autoLoad \in BOOLEAN

\* await initializeDB() (server.ts:29); an error reaches the outer catch.
StartupInit ==
  /\ startPc = "start"
  /\ startPc' \in {"count", "dbFailed"}
  /\ UNCHANGED <<table, content, loaderVars, askVars, findVars, autoLoad,
                 embedVars, chunkVars, walkVars>>

\* await KnowledgeBase.count() (server.ts:32-50): loadAllData is called only
\* for a count of 0 with AUTO_LOAD_DATA set; an error reaches the outer catch.
StartupCount ==
  /\ startPc = "count"
  /\ \/ /\ startPc' = "dbFailed"
        /\ UNCHANGED runsLeft
     \/ IF Len(table) = 0 /\ autoLoad
          THEN /\ startPc' = "loading"
               /\ runsLeft' = [runsLeft EXCEPT ![1] = 1]
          ELSE /\ startPc' = "done"
               /\ UNCHANGED runsLeft
  /\ UNCHANGED <<table, content, pc, idx, chunks, embeddings, ins, failedIn, ops,
                 completed, prevCompleted, tableAtStart, before, askVars, findVars,
                 autoLoad, embedVars, chunkVars, walkVars>>

\* loadAllData has returned, or thrown into the catch of server.ts:42-45.
StartupLoaded ==
  /\ startPc = "loading"
  /\ pc[1] \in {"done", "failed"}
  /\ startPc' = "done"
  /\ UNCHANGED <<table, content, loaderVars, askVars, findVars, autoLoad,
                 embedVars, chunkVars, walkVars>>

NextStart == StartupInit \/ StartupCount \/ StartupLoaded \/ Loader(1)

SpecStart == InitStart /\ [][NextStart]_vars

(***************************************************************************)
(* loadSlackChannel on its own, one step per await (ragService.ts:189-234):*)
(* the remote API chooses each answer.  The walk is recorded in full for   *)
(* its first MaxPages pages; past them it goes on as the code does, with   *)
(* page standing at MaxPages + 1 for every later page and with the page    *)
(* numbers and messages of those pages left unrecorded.                    *)
(***************************************************************************)
MaxPages == 3

\* The JSON body of a page: `listed` tells whether data.messages is an
\* array, `more` is the value of data.hasMore !== false.
WalkData(listed, messages, more) ==
  [listed |-> listed, messages |-> messages, more |-> more]

WalkMessageLists ==
  { <<>>,
    <<Msg(<<"u">>, <<"a">>)>>,
    <<Msg(<<>>, <<"b">>)>>,
    <<Msg(<<"v">>, <<"c">>), Msg(<<"u">>, <<>>)>> }

WalkDatas ==
  { WalkData(TRUE, ms, more) : ms \in WalkMessageLists, more \in BOOLEAN }
    \cup { WalkData(FALSE, <<>>, more) : more \in BOOLEAN }

InitWalk ==
  /\ table = <<>>
  /\ content = CHOOSE w \in Worlds : TRUE
  /\ LoaderInit(0)
  /\ AskInit
  /\ FindInit
  /\ StartInit
  /\ EmbedInit
  /\ ChunkInit
  /\ walkPc = "fetch"
  /\ walkPage = 1
  /\ walkHasMore = TRUE
  /\ walkMessages = <<>>
  /\ walkRequested = <<>>

\* while (hasMore) { response = await fetch(url): an OK response, a non-OK one
\* (break), or an error (catch); either of the last two ends the walk.
WalkFetch ==
  /\ walkPc = "fetch"
  /\ walkHasMore
  /\ walkRequested' = IF walkPage <= MaxPages THEN Append(walkRequested, walkPage)
                                              ELSE walkRequested
  /\ walkPc' \in {"json", "returned"}
  /\ UNCHANGED <<table, content, loaderVars, askVars, findVars, startVars,
                 embedVars, chunkVars, walkPage, walkHasMore, walkMessages>>

\* data = await response.json(), then ragService.ts:206-222; a body that is
\* not JSON throws into the catch.
WalkJson ==
  /\ walkPc = "json"
  /\ \/ /\ walkPc' = "returned"
        /\ UNCHANGED <<walkPage, walkHasMore, walkMessages>>
     \/ \E data \in WalkDatas :
          /\ walkMessages' = IF data.listed /\ walkPage <= MaxPages
                                THEN walkMessages \o PageMessages(data)
                                ELSE walkMessages
          /\ walkHasMore' = (data.more /\ data.listed /\ Len(data.messages) > 0)
          /\ walkPage' = Min(walkPage + 1, MaxPages + 1)
          /\ walkPc' = IF walkHasMore' THEN "delay" ELSE "returned"
  /\ UNCHANGED <<table, content, loaderVars, askVars, findVars, startVars,
                 embedVars, chunkVars, walkRequested>>

\* The 100 ms delay of ragService.ts:225-227.
WalkDelay ==
  /\ walkPc = "delay"
  /\ walkPc' = "fetch"
  /\ UNCHANGED <<table, content, loaderVars, askVars, findVars, startVars,
                 embedVars, chunkVars, walkPage, walkHasMore, walkMessages, walkRequested>>

NextWalk == WalkFetch \/ WalkJson \/ WalkDelay

\* Every await of the walk is eventually answered.
SpecWalk == InitWalk /\ [][NextWalk]_vars /\ WF_vars(NextWalk)

(***************************************************************************)
(* Properties.                                                             *)
(***************************************************************************)
WriteCalls == {"destroy", "insert"}

IngestCalls == {"fetch", "embed", "destroy", "insert"}

Pair(j) == Sources[j]

RowsOfSource(rows, j) == RowsOf(rows, Pair(j).source, Pair(j).source_id)

\* The rows storeChunks is asked to persist for the current source of task p.
NewRows(p) ==
  [i \in 1..Len(chunks[p]) |->
     Row(Src(p).source, Src(p).source_id, i - 1, chunks[p][i], embeddings[p][i])]

\* C1: when the ingestion of a source has failed in a run of loadAllData, the
\* existence check of every source that comes after it has been made in that
\* run.
C1_LaterSourcesAttempted ==
  \A p \in Tasks :
    pc[p] = "failed" =>
      \A j \in SourceIdx : j > idx[p] => <<j, "exists">> \in ops[p]

\* C2: when a storeChunks call has ended, by returning or by failing at the
\* destroy or at an insert, the rows of its pair are the complete old set or
\* the complete new set.
C2_ReplaceAtomic ==
  \A p \in Tasks :
    (pc[p] = "stored" \/ (pc[p] = "failed" /\ failedIn[p] \in WriteCalls)) =>
      \/ RowsOfSource(table, idx[p]) = RowsOfSource(before[p], idx[p])
      \/ RowsOfSource(table, idx[p]) = NewRows(p)

\* A storeChunks call of task p is in progress.
InStoreChunks(p) == pc[p] \in {"destroy", "insert"}

\* C3: no two rows share (source, source_id, chunk_index), and no two
\* storeChunks calls for one pair are in progress at the same time.
C3_UniqueChunks ==
  /\ \A i, j \in 1..Len(table) :
       (/\ table[i].source = table[j].source
        /\ table[i].source_id = table[j].source_id
        /\ table[i].chunk_index = table[j].chunk_index) => i = j
  /\ \A p, q \in Tasks :
       (InStoreChunks(p) /\ InStoreChunks(q) /\ idx[p] = idx[q]) => p = q

\* C4: a source whose ingestion completed without error in the run before is
\* skipped by the current run: no fetch, embedding call, delete or insert is
\* made for it, and when the run has ended its rows are those it started with.
C4_CompletedSourceSkipped ==
  \A p \in Tasks :
    \A j \in prevCompleted[p] :
      /\ \A call \in IngestCalls : <<j, call>> \notin ops[p]
      /\ pc[p] \in {"done", "failed"} =>
           RowsOfSource(table, j) = RowsOfSource(tableAtStart[p], j)

C6_ReplaceStoresExactlyNew ==
  \A p \in Tasks :
    pc[p] = "stored" =>
      /\ RowsOfSource(table, idx[p]) = NewRows(p)
      /\ \A i \in 1..Len(chunks[p]) :
           RowsOfSource(table, idx[p])[i].chunk_index = i - 1
      /\ Destroy(table, Src(p).source, Src(p).source_id)
           = Destroy(before[p], Src(p).source, Src(p).source_id)

\* storeChunks has returned after replacing older, different rows of its pair
\* by several new ones.
C6_Witness ==
  /\ pc[1] = "stored"
  /\ Len(chunks[1]) >= 2
  /\ RowsOfSource(before[1], idx[1]) # <<>>
  /\ RowsOfSource(before[1], idx[1]) # NewRows(1)

\* C7: when ask has counted zero rows, it has returned the empty-store
\* sentinel and has made no embedding call and no generation call.
C7_EmptyStoreShortCircuit ==
  totalChunks = 0 =>
    /\ apc = "returned"
    /\ answer = EmptySentinel
    /\ askCalls = <<0, 0>>

\* ask has returned the empty-store sentinel.
C7_Witness ==
  /\ apc = "returned"
  /\ totalChunks = 0
  /\ answer = EmptySentinel

\* C8: when ask has counted at least one row, embedded the question and got
\* no row from findSimilarChunks, it has returned the no-relevant-information
\* sentinel, without an error and without a generation call.
C8_NoResultSentinel ==
  (totalChunks > 0 /\ embeddedAtSearch >= 0 /\ similarChunks = <<>>) =>
    /\ apc = "returned"
    /\ answer = NoInfoSentinel
    /\ askCalls = <<1, 0>>

\* ask has returned the no-relevant-information sentinel over a table that
\* holds rows.
C8_Witness ==
  /\ apc = "returned"
  /\ answer = NoInfoSentinel
  /\ totalChunks > 0
  /\ Len(questionEmbedding) = EMBEDDING_DIMENSION
  /\ table # <<>>

RowSet(rows) == {rows[i] : i \in 1..Len(rows)}

RawVector(e) == IF e.hasValues THEN e.values ELSE IF e.hasAlt THEN e.alt ELSE e.arr

Zeros(n) == [i \in 1..n |-> 0]

\* C11: every vector getEmbedding returns has length D: a raw vector longer
\* than D gives its first D entries in order, a shorter one gives its entries
\* followed by zeros, and one of length D is returned as it is.
C11_ReturnedLengthIsD ==
  (embedResult # <<>> /\ embedResult[1].ok) =>
    LET raw == RawVector(embedResponse)
        L == Len(raw)
        D == EMBEDDING_DIMENSION
        out == embedResult[1].vec
    IN  /\ Len(out) = D
        /\ L > D => out = SubSeq(raw, 1, D)
        /\ (0 < L /\ L < D) => out = raw \o Zeros(D - L)
        /\ L = D => out = raw

\* A call that returned a truncated vector.
C11_Witness ==
  /\ embedResult # <<>>
  /\ embedResult[1].ok
  /\ Len(RawVector(embedResponse)) > EMBEDDING_DIMENSION
  /\ embedResult[1].vec # RawVector(embedResponse)

\* The first non-empty array among the canonical values field, the bare
\* array and the alternate field, in this order; << >> when there is none.
FirstNonEmpty(e) ==
  IF e.hasValues /\ e.values # <<>> THEN e.values
  ELSE IF e.kind = "array" /\ e.arr # <<>> THEN e.arr
  ELSE IF e.hasAlt /\ e.alt # <<>> THEN e.alt
  ELSE <<>>

\* C12: getEmbedding takes the first of the three strategies that yields a
\* non-empty array and fails only when none does; an empty canonical values
\* field next to a non-empty alternate field yields the alternate array.
C12_FirstNonEmptyStrategyWins ==
  embedResult # <<>> =>
    LET first == FirstNonEmpty(embedResponse)
    IN  IF first = <<>>
          THEN ~embedResult[1].ok
          ELSE /\ embedResult[1].ok
               /\ embedResult[1].vec =
                    (IF Len(first) >= EMBEDDING_DIMENSION
                       THEN SubSeq(first, 1, EMBEDDING_DIMENSION)
                       ELSE first \o Zeros(EMBEDDING_DIMENSION - Len(first)))

\* C19: a getEmbedding call that returns logs a warning exactly when the
\* extracted length differs from D, the length 1536 included.
C19_WarnsWheneverReconciled ==
  (embedResult # <<>> /\ embedResult[1].ok) =>
    (embedResult[1].warnings # {} <=> Len(RawVector(embedResponse)) # EMBEDDING_DIMENSION)

\* The whitespace-separated words of a string, read from left to right.
RECURSIVE WordLen(_)
WordLen(str) == IF str = <<>> \/ IsSpace(Head(str)) THEN 0 ELSE 1 + WordLen(Tail(str))

RECURSIVE WordsOf(_)
WordsOf(str) ==
  IF str = <<>> THEN <<>>
  ELSE IF IsSpace(Head(str)) THEN WordsOf(Tail(str))
  ELSE <<SubSeq(str, 1, WordLen(str))>> \o WordsOf(SubSeq(str, WordLen(str) + 1, Len(str)))

RECURSIVE WordsOfAll(_)
WordsOfAll(strs) ==
  IF strs = <<>> THEN <<>> ELSE WordsOf(Head(strs)) \o WordsOfAll(Tail(strs))

\* C13: the words of the chunks of chunkText, in chunk order, are the words
\* of the input; every chunk has between 1 and w words; an empty or
\* whitespace-only input yields no chunk.
C13_ChunksPreserveWords ==
  chunkResult # <<>> =>
    LET returned == chunkResult[1]
    IN  /\ WordsOfAll(returned) = WordsOf(chunkInput)
        /\ \A i \in 1..Len(returned) :
              /\ Len(WordsOf(returned[i])) >= 1
              /\ Len(WordsOf(returned[i])) <= chunkWindow
        /\ WordsOf(chunkInput) = <<>> => returned = <<>>

\* A call on a text that starts with whitespace and yields two chunks or more.
C13_Witness ==
  /\ chunkResult # <<>>
  /\ Len(chunkResult[1]) >= 2
  /\ IsSpace(chunkInput[1])

\* C17: every chunk of chunkText but the last holds exactly w words, also
\* for a text that begins with whitespace.
C17_FullWindowsButLast ==
  chunkResult # <<>> =>
    \A i \in 1..(Len(chunkResult[1]) - 1) :
      Len(WordsOf(chunkResult[1][i])) = chunkWindow

\* C14: a store failure in the existence check propagates out of the
\* ingestion of the source, which is not fetched as if it were absent: in
\* particular the check of a source that holds rows never leads on to its
\* fetch (it is skipped when the store answers, and the run ends when the
\* store fails).
C14_CheckFailurePropagates ==
  [][\A p \in Tasks :
       (pc[p] = "exists" /\ RowsOfSource(table, idx[p]) # <<>>) => pc'[p] # "load"]_vars

\* C15: when the acquisition of a source fails, its ingestion is aborted: a
\* failed document fetch is followed by no embedding call and no write for
\* the source, and a channel is chunked, embedded and stored only with the
\* messages of a walk in which no page request failed.
C15_AcquisitionFailureAborts ==
  \A p \in Tasks :
    /\ (pc[p] = "failed" /\ failedIn[p] = "fetch") =>
         /\ \A call \in {"embed", "destroy", "insert"} : <<idx[p], call>> \notin ops[p]
         /\ RowsOfSource(table, idx[p]) = RowsOfSource(tableAtStart[p], idx[p])
    /\ (Src(p).source = "slack" /\ pc[p] \in {"embed", "destroy", "insert", "stored"}) =>
         chunks[p] = chunkText(Join(loadSlackChannel(content[idx[p]], 0), <<"\n">>),
                               WordsPerChunk)

\* Task p awaits getEmbedding in its embedding loop (ragService.ts:322): the
\* call for chunk Len(embeddings[p]) + 1 has been issued and has not returned.
EmbedInFlight(p) == pc[p] = "embed"

\* C16: ingestion issues its embedding calls one after the other: at most
\* one of them is in flight at any moment, and the one in flight is for
\* the chunk that follows those already embedded.
C16_OneEmbeddingInFlight ==
  /\ \A p, q \in Tasks : (EmbedInFlight(p) /\ EmbedInFlight(q)) => p = q
  /\ \A p \in Tasks : EmbedInFlight(p) => Len(embeddings[p]) < Len(chunks[p])

\* C18: with AUTO_LOAD_DATA set, once the startup callback has finished
\* without a database error and without a failed call in the load, every
\* configured PDF and article whose text yields a chunk is loaded, whatever
\* the table held at startup.
C18_StartupPopulates ==
  (autoLoad /\ startPc = "done" /\ failedIn[1] = "none") =>
    \A j \in SourceIdx :
      (Sources[j].source # "slack" /\ chunkText(content[j], WordsPerChunk) # <<>>) =>
        RowsOfSource(table, j) # <<>>

\* The pages requested so far are 1, 2, 3, ... in this order, none twice.
WalkInOrder == \A i \in 1..Len(walkRequested) : walkRequested[i] = i

\* No page is requested after the walk has ended.
WalkStopsForGood == [][walkPc = "returned" => UNCHANGED walkVars]_vars

\* C20: loadSlackChannel requests pages 1, 2, 3, ... in increasing order,
\* none twice, requests nothing after the page that ends the walk, and
\* returns whatever answers the remote API gives.
C20_WalkTerminates ==
  /\ []WalkInOrder
  /\ WalkStopsForGood
  /\ <>(walkPc = "returned")

====
